---------------------------- MODULE Spec2Model ----------------------------
(***************************************************************************)
(* A model of app/utils/gui.py: the popup, chooser, colour and shell       *)
(* helpers.  Every helper is a blocking call: the model calls one helper   *)
(* from the idle state with inputs (its arguments and what the toolkit,    *)
(* the user, the file system or the host answer), records what it returned *)
(* and which processes it launched, and goes back to idle.                 *)
(*                                                                         *)
(* Strings of the program are tuples of one-character strings, so that     *)
(* splitting, lower-casing and suffix tests are computed, not assumed.     *)
(* An optional value is None (the empty tuple) or Some(v) (a 1-tuple).     *)
(***************************************************************************)
EXTENDS Integers, Sequences, FiniteSets, TLC

VARIABLES pc, op, args, ret, procs, raised

vars == <<pc, op, args, ret, procs, raised>>

None == <<>>

Some(v) == <<v>>

(***************************************************************************)
(* IEEE-754 double arithmetic, as CPython's float uses it.  A positive     *)
(* double is m * 2^e with m a MantissaBits-bit natural; naturals wider     *)
(* than a machine word are little-endian tuples of base-LimbBase limbs.    *)
(* Zero is the empty mantissa.                                             *)
(***************************************************************************)
MantissaBits == 53

LimbBits == 12 + 1

LimbBase == 2^LimbBits

RECURSIVE Carry(_, _, _)
\* cols: column values; propagates the carries from column i on.
Carry(cols, i, c) ==
    IF i > Len(cols)
    THEN IF c = 0 THEN <<>> ELSE <<c % LimbBase>> \o Carry(cols, i, c \div LimbBase)
    ELSE <<(cols[i] + c) % LimbBase>> \o Carry(cols, i + 1, (cols[i] + c) \div LimbBase)

RECURSIVE Trim(_)
\* Drops the high zero limbs.
Trim(a) ==
    IF a = <<>> THEN a
    ELSE IF a[Len(a)] = 0 THEN Trim(SubSeq(a, 1, Len(a) - 1)) ELSE a

Limb(a, i) == IF i >= 1 /\ i <= Len(a) THEN a[i] ELSE 0

BigOf(n) == Trim(Carry(<<n>>, 1, 0))

BigAdd(a, b) ==
    LET n == IF Len(a) > Len(b) THEN Len(a) ELSE Len(b)
    IN  Trim(Carry([k \in 1..n |-> Limb(a, k) + Limb(b, k)], 1, 0))

RECURSIVE ColSum(_, _, _, _)
\* The sum of a[i] * b[k + 1 - i] from i up to Len(a).
ColSum(a, b, k, i) ==
    IF i > Len(a) THEN 0
    ELSE Limb(a, i) * Limb(b, k + 1 - i) + ColSum(a, b, k, i + 1)

BigMul(a, b) ==
    IF a = <<>> \/ b = <<>> THEN <<>>
    ELSE Trim(Carry([k \in 1..(Len(a) + Len(b) - 1) |-> ColSum(a, b, k, 1)], 1, 0))

RECURSIVE WordBits(_)
\* The bit length of a machine-word natural.
WordBits(n) == IF n = 0 THEN 0 ELSE 1 + WordBits(n \div 2)

BitLen(a) == IF a = <<>> THEN 0 ELSE LimbBits * (Len(a) - 1) + WordBits(a[Len(a)])

\* 2^s as a big natural.
BigPow2(s) ==
    [k \in 1..(s \div LimbBits + 1) |-> IF k = s \div LimbBits + 1 THEN 2^(s % LimbBits) ELSE 0]

BigShl(a, s) == BigMul(a, BigPow2(s))

\* floor(a / 2^s)
BigShr(a, s) ==
    LET q == s \div LimbBits
        r == s % LimbBits
    IN  IF Len(a) <= q THEN <<>>
        ELSE Trim([k \in 1..(Len(a) - q) |->
                    (Limb(a, q + k) \div 2^r) + (Limb(a, q + k + 1) % 2^r) * 2^(LimbBits - r)])

\* Bit i (from 0) of a.
BigBit(a, i) == (Limb(a, i \div LimbBits + 1) \div 2^(i % LimbBits)) % 2

\* Whether a has a one among its s low bits.
BigLowBits(a, s) ==
    \/ \E k \in 1..(s \div LimbBits) : Limb(a, k) # 0
    \/ Limb(a, s \div LimbBits + 1) % 2^(s % LimbBits) # 0

RECURSIVE BigCmpFrom(_, _, _)
\* Compares a and b of one length from limb i down: -1, 0 or 1.
BigCmpFrom(a, b, i) ==
    IF i = 0 THEN 0
    ELSE IF a[i] > b[i] THEN 1
    ELSE IF a[i] < b[i] THEN 0 - 1
    ELSE BigCmpFrom(a, b, i - 1)

BigCmp(a, b) ==
    IF Len(a) > Len(b) THEN 1
    ELSE IF Len(a) < Len(b) THEN 0 - 1
    ELSE BigCmpFrom(a, b, Len(a))

RECURSIVE DivSmallFrom(_, _, _, _)
\* Long division of a by the machine-word d from limb i down with remainder
\* rem so far: <<quotient limbs (high first), remainder>>.
DivSmallFrom(a, d, i, rem) ==
    IF i = 0 THEN <<<<>>, rem>>
    ELSE LET cur  == rem * LimbBase + a[i]
             rest == DivSmallFrom(a, d, i - 1, cur % d)
         IN  <<<<cur \div d>> \o rest[1], rest[2]>>

Reverse(s) == [k \in 1..Len(s) |-> s[Len(s) + 1 - k]]

FZero == [m |-> <<>>, e |-> 0]

\* Rounds n * 2^e to the nearest double, ties to even.
FRound(n, e) ==
    LET len == BitLen(n)
        s   == len - MantissaBits
    IN  IF n = <<>> THEN FZero
        ELSE IF s <= 0 THEN [m |-> BigShl(n, 0 - s), e |-> e + s]
        ELSE LET m0   == BigShr(n, s)
                 up   == BigBit(n, s - 1) = 1
                         /\ (BigLowBits(n, s - 1) \/ BigBit(m0, 0) = 1)
                 m1   == IF up THEN BigAdd(m0, BigOf(1)) ELSE m0
             IN  IF BitLen(m1) > MantissaBits
                 THEN [m |-> BigShr(m1, 1), e |-> e + s + 1]
                 ELSE [m |-> m1, e |-> e + s]

\* The double nearest to p / q, for machine-word naturals p and q > 0: a float
\* division of two exactly representable values, or a decimal literal.
FDivInt(p, q) ==
    LET k   == 6 * LimbBits
        big == BigShl(BigOf(p), k)
        d   == DivSmallFrom(big, q, Len(big), 0)
        quo == Trim(Reverse(d[1]))
        n   == BigAdd(BigShl(quo, 1), BigOf(IF d[2] = 0 THEN 0 ELSE 1))
    IN  IF p = 0 THEN FZero ELSE FRound(n, 0 - k - 1)

FMul(x, y) ==
    IF x.m = <<>> \/ y.m = <<>> THEN FZero
    ELSE FRound(BigMul(x.m, y.m), x.e + y.e)

FAdd(x, y) ==
    IF x.m = <<>> THEN y
    ELSE IF y.m = <<>> THEN x
    ELSE LET lo == IF x.e < y.e THEN x.e ELSE y.e
         IN  FRound(BigAdd(BigShl(x.m, x.e - lo), BigShl(y.m, y.e - lo)), lo)

\* x > y, for doubles that are zero or positive.
FGreater(x, y) ==
    IF x.m = <<>> THEN FALSE
    ELSE IF y.m = <<>> THEN TRUE
    ELSE IF x.e # y.e THEN x.e > y.e
    ELSE BigCmp(x.m, y.m) = 1

(***************************************************************************)
(* Colours: QColor holds red, green, blue and alpha, each 0..255.          *)
(***************************************************************************)
ChannelMax == 255

QColor(r, g, b) == [red |-> r, green |-> g, blue |-> b, alpha |-> ChannelMax]

QColorA(r, g, b, a) == [red |-> r, green |-> g, blue |-> b, alpha |-> a]

\* QColor::redF() and its like: the channel's 16-bit value over 65535.
ChannelF(v) == FDivInt(v * (2^8 + 1), 2^16 - 1)

\* negate with the blue channel taken from the red one.
negate_blue_from_red(color) ==
    QColor(ChannelMax - color.red, ChannelMax - color.green, ChannelMax - color.red)

negate(color) ==
    QColor(ChannelMax - color.red, ChannelMax - color.green, ChannelMax - color.blue)

BLACK == QColor(0, 0, 0)

WHITE == QColor(ChannelMax, ChannelMax, ChannelMax)

luminance(bg_color) ==
    FAdd(FAdd(FMul(FDivInt(2126, 10000), ChannelF(bg_color.red)),
              FMul(FDivInt(7152, 10000), ChannelF(bg_color.green))),
         FMul(FDivInt(722, 10000), ChannelF(bg_color.blue)))

font_color(bg_color) ==
    IF FGreater(luminance(bg_color), FDivInt(179, 1000)) THEN BLACK ELSE WHITE

(***************************************************************************)
(* Strings, os.path.splitext and pathlib.Path(...).absolute() (POSIX).     *)
(***************************************************************************)
Uppers == <<"A", "B", "C", "D", "E", "F", "G", "H", "I", "J", "K", "L", "M",
            "N", "O", "P", "Q", "R", "S", "T", "U", "V", "W", "X", "Y", "Z">>

Lowers == <<"a", "b", "c", "d", "e", "f", "g", "h", "i", "j", "k", "l", "m",
            "n", "o", "p", "q", "r", "s", "t", "u", "v", "w", "x", "y", "z">>

LowerChar(c) ==
    IF \E i \in 1..Len(Uppers) : Uppers[i] = c
    THEN Lowers[CHOOSE i \in 1..Len(Uppers) : Uppers[i] = c]
    ELSE c

\* str.lower()
Lower(s) == [k \in 1..Len(s) |-> LowerChar(s[k])]

\* str.rfind(c), counting from 1: 0 when c is not in s.
RFind(s, c) ==
    IF \E k \in 1..Len(s) : s[k] = c
    THEN CHOOSE k \in 1..Len(s) : s[k] = c /\ \A j \in (k + 1)..Len(s) : s[j] # c
    ELSE 0

\* str.endswith(suffix)
EndsWith(s, suffix) ==
    /\ Len(s) >= Len(suffix)
    /\ SubSeq(s, Len(s) - Len(suffix) + 1, Len(s)) = suffix

\* os.path.splitext(p)[1]: from the last dot of the last component, unless
\* only dots come before it in that component.
SplitExt(p) ==
    LET sepIndex == RFind(p, "/")
        dotIndex == RFind(p, ".")
    IN  IF dotIndex > sepIndex /\ \E k \in (sepIndex + 1)..(dotIndex - 1) : p[k] # "."
        THEN SubSeq(p, dotIndex, Len(p))
        ELSE <<>>

\* os.path.splitext(p)[1].lower()[1:]
ExtOf(p) ==
    LET e == Lower(SplitExt(p))
    IN  IF e = <<>> THEN e ELSE Tail(e)

RECURSIVE SplitSlash(_)
\* str.split('/')
SplitSlash(p) ==
    LET k == IF \E j \in 1..Len(p) : p[j] = "/"
             THEN CHOOSE j \in 1..Len(p) : p[j] = "/" /\ \A i \in 1..(j - 1) : p[i] # "/"
             ELSE 0
    IN  IF k = 0 THEN <<p>>
        ELSE <<SubSeq(p, 1, k - 1)>> \o SplitSlash(SubSeq(p, k + 1, Len(p)))

\* The parts pathlib keeps: neither empty nor ".".
PathParts(p) == SelectSeq(SplitSlash(p), LAMBDA c : c # <<>> /\ c # <<".">>)

\* The root pathlib gives a POSIX path: "/", "//" for exactly two leading
\* slashes, or none.
PathRoot(p) ==
    IF Len(p) >= 1 /\ p[1] = "/"
    THEN IF Len(p) >= 2 /\ p[2] = "/" /\ ~(Len(p) >= 3 /\ p[3] = "/")
         THEN <<"/", "/">>
         ELSE <<"/">>
    ELSE <<>>

RECURSIVE JoinSlash(_)
JoinSlash(parts) ==
    IF parts = <<>> THEN <<>>
    ELSE IF Len(parts) = 1 THEN parts[1]
    ELSE parts[1] \o <<"/">> \o JoinSlash(Tail(parts))

\* The working directory of the process.
Cwd == <<"/", "w">>

\* pathlib.Path(p)
Path(p) == [root |-> PathRoot(p), parts |-> PathParts(p)]

\* path / name, for a name that is one relative part.
PathChild(path, name) == [path EXCEPT !.parts = path.parts \o <<name>>]

\* str(path.absolute())
AbsolutePath(path) ==
    IF path.root # <<>> THEN path.root \o JoinSlash(path.parts)
    ELSE IF path.parts = <<>> THEN Cwd
    ELSE Cwd \o <<"/">> \o JoinSlash(path.parts)

\* str(pathlib.Path(p).absolute())
Absolute(p) == AbsolutePath(Path(p))

(***************************************************************************)
(* show_question: the message box and the user's gesture.                  *)
(***************************************************************************)
\* QuestionButtons with the Cancel button always added.
QuestionButtonsWithCancel(cancel) == {"Yes", "No", "Cancel"}

\* The standard buttons the box is built with.
QuestionButtons(cancel) == {"Yes", "No"} \cup (IF cancel THEN {"Cancel"} ELSE {})

\* The role Qt gives each standard button.
ButtonRole(b) ==
    CASE b = "Yes" -> "YesRole"
      [] b = "No" -> "NoRole"
      [] b = "Cancel" -> "RejectRole"

\* The button the box takes for Escape or its close button: Cancel, else the
\* only button, else the only RejectRole button, else the only NoRole button.
EscapeButton(buttons) ==
    LET only(S) == IF Cardinality(S) = 1 THEN Some(CHOOSE b \in S : TRUE) ELSE None
        rejects == {b \in buttons : ButtonRole(b) = "RejectRole"}
        noes    == {b \in buttons : ButtonRole(b) = "NoRole"}
    IN  IF "Cancel" \in buttons THEN Some("Cancel")
        ELSE IF only(buttons) # None THEN only(buttons)
        ELSE IF only(rejects) # None THEN only(rejects)
        ELSE only(noes)

\* What the user can do to end the box: click one of its buttons, or dismiss
\* it (Escape, the close button) when it has an escape button.
Gestures(buttons) ==
    buttons \cup (IF EscapeButton(buttons) # None THEN {"Dismiss"} ELSE {})

\* mb.exec_(): the standard button that ended the box.
MessageBoxExec(buttons, gesture) ==
    IF gesture = "Dismiss" THEN EscapeButton(buttons)[1] ELSE gesture

\* answers with Cancel mapped to False.
answers_cancel_false(button) ==
    CASE button = "Yes" -> Some(TRUE)
      [] button = "No" -> Some(FALSE)
      [] button = "Cancel" -> Some(FALSE)

answers(button) ==
    CASE button = "Yes" -> Some(TRUE)
      [] button = "No" -> Some(FALSE)
      [] button = "Cancel" -> None

show_question(cancel, gesture) ==
    answers(MessageBoxExec(QuestionButtons(cancel), gesture))

(***************************************************************************)
(* show_int_input: the input dialog's spin box.                            *)
(***************************************************************************)
\* The range a new spin box has.
SpinBoxDefaultMinimum == 0

SpinBoxDefaultMaximum == 99

NewSpinBox ==
    [minimum |-> SpinBoxDefaultMinimum, maximum |-> SpinBoxDefaultMaximum,
     value |-> SpinBoxDefaultMinimum]

Bound(sb, v) ==
    IF v < sb.minimum THEN sb.minimum ELSE IF v > sb.maximum THEN sb.maximum ELSE v

\* QSpinBox::setRange: the maximum is at least the minimum; the value is
\* brought into the range.
SetRange(sb, lo, hi) ==
    LET r == [sb EXCEPT !.minimum = lo, !.maximum = IF lo < hi THEN hi ELSE lo]
    IN  [r EXCEPT !.value = Bound(r, sb.value)]

setIntMinimum(sb, lo) == SetRange(sb, lo, IF sb.maximum > lo THEN sb.maximum ELSE lo)

setIntMaximum(sb, hi) == SetRange(sb, IF sb.minimum < hi THEN sb.minimum ELSE hi, hi)

setIntValue(sb, v) == [sb EXCEPT !.value = Bound(sb, v)]

\* IntInputDialog without the call of setIntMaximum.
IntInputDialogNoMaximum(value, min_value, max_value) ==
    setIntValue(IF min_value # None THEN setIntMinimum(NewSpinBox, min_value[1]) ELSE NewSpinBox,
                value)

\* The dialog as show_int_input sets it up before exec_().
IntInputDialog(value, min_value, max_value) ==
    LET d1 == IF min_value # None THEN setIntMinimum(NewSpinBox, min_value[1]) ELSE NewSpinBox
        d2 == IF max_value # None THEN setIntMaximum(d1, max_value[1]) ELSE d1
    IN  setIntValue(d2, value)

\* What the user can do to the spin box before ending the dialog: leave it
\* (None) or enter a value, and the box accepts only values of its range.
Typeable(sb) == {None} \cup {Some(v) : v \in sb.minimum..sb.maximum}

show_int_input(value, min_value, max_value, ok, typed) ==
    LET shown   == IntInputDialog(value, min_value, max_value)
        input_d == IF typed # None THEN setIntValue(shown, typed[1]) ELSE shown
    IN  IF ok THEN Some(input_d.value) ELSE None

(***************************************************************************)
(* The file and directory choosers.                                        *)
(***************************************************************************)
FILTER_IMAGES == 0

FILTER_DB == 1

IMAGE_FILE_EXTENSIONS ==
    {<<"p", "n", "g">>, <<"j", "p", "g">>, <<"j", "p", "e", "g">>,
     <<"b", "m", "p">>, <<"g", "i", "f">>}

\* check_ext without the test of the mode.
check_ext_any_mode(mode, p) ==
    \/ ExtOf(p) \in IMAGE_FILE_EXTENSIONS
    \/ ExtOf(p) = <<"s", "q", "l", "i", "t", "e", "3">>

check_ext(mode, p) ==
    LET ext == ExtOf(p)
    IN  \/ mode = FILTER_IMAGES /\ ext \in IMAGE_FILE_EXTENSIONS
        \/ mode = FILTER_DB /\ ext = <<"s", "q", "l", "i", "t", "e", "3">>

\* open_file_chooser returning None for a multiple selection none of whose
\* paths passes check_ext.
open_file_chooser_none_when_empty(single_selection, mode, selection) ==
    IF selection # <<>>
    THEN IF single_selection
         THEN IF check_ext(mode, selection) THEN Some(Absolute(selection)) ELSE None
         ELSE IF SelectSeq(selection, LAMBDA q : check_ext(mode, q)) = <<>> THEN None
         ELSE Some([k \in 1..Len(SelectSeq(selection, LAMBDA q : check_ext(mode, q))) |->
                      Absolute(SelectSeq(selection, LAMBDA q : check_ext(mode, q))[k])])
    ELSE None

\* selection: what the dialog returned, a string (single selection; empty
\* when cancelled) or a list of strings (empty when cancelled).
open_file_chooser(single_selection, mode, selection) ==
    IF selection # <<>>
    THEN IF single_selection
         THEN IF check_ext(mode, selection) THEN Some(Absolute(selection)) ELSE None
         ELSE Some([k \in 1..Len(SelectSeq(selection, LAMBDA q : check_ext(mode, q))) |->
                      Absolute(SelectSeq(selection, LAMBDA q : check_ext(mode, q))[k])])
    ELSE None

PlaylistExt == <<".", "p", "l", "a", "y">>

\* open_playlist_saver without the endswith test.
open_playlist_saver_always_appends(file) ==
    IF file # <<>> THEN Some(Absolute(file \o PlaylistExt)) ELSE None

\* file: what the save dialog returned, empty when cancelled.
open_playlist_saver(file) ==
    LET named == IF file # <<>> /\ ~EndsWith(file, PlaylistExt) THEN file \o PlaylistExt ELSE file
    IN  IF named # <<>> THEN Some(Absolute(named)) ELSE None

\* Path(directory).glob('*.*'): the entries of the directory itself whose
\* name holds a dot, files and directories alike, in the order the file
\* system lists them.
Glob(directory, entries) ==
    LET hits == SelectSeq(entries, LAMBDA f : \E k \in 1..Len(f.name) : f.name[k] = ".")
    IN  [k \in 1..Len(hits) |-> [path |-> PathChild(Path(directory), hits[k].name),
                                   name |-> hits[k].name]]

\* directory: what the dialog returned, empty when cancelled; entries: what
\* the directory holds.
open_directory_chooser(directory, entries) ==
    LET kept == SelectSeq(Glob(directory, entries),
                          LAMBDA f : ExtOf(f.name) \in IMAGE_FILE_EXTENSIONS)
    IN  IF directory # <<>>
        THEN Some([k \in 1..Len(kept) |-> AbsolutePath(kept[k].path)])
        ELSE None

(***************************************************************************)
(* show_file                                                               *)
(***************************************************************************)
\* show_file comparing platform.system() as it is, not lower-cased.
show_file_no_lower(absolute, system) ==
    LET popen(program, verb) ==
            [launched |-> <<[program |-> program, verb |-> verb, path |-> absolute[1]]>>,
             raised |-> FALSE]
    IN  IF absolute = None THEN [launched |-> <<>>, raised |-> FALSE]
        ELSE IF system = <<"w", "i", "n", "d", "o", "w", "s">> THEN popen("explorer", "/select")
        ELSE IF system = <<"l", "i", "n", "u", "x">> THEN popen("dbus-send", "ShowItems")
        ELSE IF system = <<"d", "a", "r", "w", "i", "n">> THEN popen("open", "")
        ELSE [launched |-> <<>>, raised |-> FALSE]

\* absolute is Some(path), or None when file_path.absolute() raises
\* RuntimeError, which show_file catches; system is platform.system().
\* launched: the processes started, in order; raised: whether an error
\* leaves the call.
show_file(absolute, system) ==
    LET os_name == Lower(system)
        popen(program, verb) ==
            [launched |-> <<[program |-> program, verb |-> verb, path |-> absolute[1]]>>,
             raised |-> FALSE]
    IN  IF absolute = None THEN [launched |-> <<>>, raised |-> FALSE]
        ELSE IF os_name = <<"w", "i", "n", "d", "o", "w", "s">> THEN popen("explorer", "/select")
        ELSE IF os_name = <<"l", "i", "n", "u", "x">> THEN popen("dbus-send", "ShowItems")
        ELSE IF os_name = <<"d", "a", "r", "w", "i", "n">> THEN popen("open", "")
        ELSE [launched |-> <<>>, raised |-> FALSE]

(***************************************************************************)
(* The inputs the model calls the helpers with.                            *)
(***************************************************************************)
\* Paths a dialog can hand back, the empty one (cancelled) among them: a
\* directory prefix, a stem, an extension and a tail.
PathDirs == {<<>>, <<"/">>, <<"d", "/">>, <<"/", "/", "x", ".", "p", "n", "g", "/">>}

PathStems == {<<>>, <<"a">>, <<".">>, <<"a", ".", "b">>}

PathExts ==
    {<<>>, <<".">>, <<".", "p", "n", "g">>, <<".", "P", "N", "G">>, <<".", "J", "p", "e", "g">>,
     <<".", "s", "q", "l", "i", "t", "e", "3">>, <<".", "S", "Q", "L", "i", "t", "e", "3">>,
     <<".", "p", "l", "a", "y">>, <<".", "P", "L", "A", "Y">>, <<".", "t", "x", "t">>}

PathTails == {<<>>, <<"/">>, <<"/", ".">>, <<".", "p", "l", "a", "y">>}

Paths == {d \o s \o e \o t : d \in PathDirs, s \in PathStems, e \in PathExts, t \in PathTails}

\* The paths a multiple selection is made of.
SelectionPaths ==
    {d \o <<"a">> \o e : d \in {<<>>, <<"/", "d", "/">>},
                         e \in {<<>>, <<".", "p", "n", "g">>, <<".", "G", "I", "F">>,
                                <<".", "s", "q", "l", "i", "t", "e", "3">>, <<".", "t", "x", "t">>}}

MaxSelection == 2

RECURSIVE SeqsUpTo(_, _)
\* The sequences of at most n elements of S.
SeqsUpTo(S, n) ==
    IF n = 0 THEN {<<>>}
    ELSE SeqsUpTo(S, n - 1) \cup {<<x>> \o q : x \in S, q \in {r \in SeqsUpTo(S, n - 1) : Len(r) = n - 1}}

Selections == SeqsUpTo(SelectionPaths, MaxSelection)

\* What a chosen directory can hold: files and sub-directories by name, a
\* sub-directory with the names of the files inside it.
File(name) == [name |-> name, is_dir |-> FALSE, inside |-> <<>>]

Dir(name, inside) == [name |-> name, is_dir |-> TRUE, inside |-> inside]

DirEntries ==
    {File(<<"a", ".", "p", "n", "g">>), File(<<"B", ".", "J", "P", "G">>),
     File(<<"c", ".", "t", "x", "t">>), File(<<".", "p", "n", "g">>),
     File(<<"p", "n", "g">>), Dir(<<"s", "u", "b">>, <<<<"i", "n", ".", "p", "n", "g">>>>),
     Dir(<<"d", ".", "g", "i", "f">>, <<>>)}

MaxEntries == 2

\* The listings of a directory: no name twice.
Listings ==
    {l \in SeqsUpTo(DirEntries, MaxEntries) :
        \A i, j \in 1..Len(l) : i # j => l[i].name # l[j].name}

Directories == {<<>>, <<"/">>, <<"p", "i", "c", "s">>, <<"/", "w", "/", "p", "i", "c", "s", "/">>}

\* Integers show_int_input is called with.
MaxIntArg == 2

IntArgs == (0 - MaxIntArg)..MaxIntArg

IntValues == IntArgs \cup {SpinBoxDefaultMaximum + 1}

OptIntArgs == {None} \cup {Some(v) : v \in IntArgs}

\* Colours: channel levels on both sides of the luminance threshold.
Reds == {0, 36, 135, 255}

Greens == {0, 14, 50, 51, 52, 63, 64, 128, 255}

Blues == {0, 21, 96, 255}

Alphas == {0, 128, 255}

\* What platform.system() answers.
Systems ==
    {<<"W", "i", "n", "d", "o", "w", "s">>, <<"L", "i", "n", "u", "x">>,
     <<"D", "a", "r", "w", "i", "n">>, <<"J", "a", "v", "a">>,
     <<"F", "r", "e", "e", "B", "S", "D">>, <<>>}

ShownPaths == {<<"a", ".", "p", "n", "g">>, <<"/", "d", "/", "a", ".", "p", "n", "g">>}

Init ==
    /\ pc = "idle"
    /\ op = "none"
    /\ args = <<>>
    /\ ret = None
    /\ procs = <<>>
    /\ raised = FALSE

ShowQuestion ==
    \E cancel \in BOOLEAN :
        \E gesture \in Gestures(QuestionButtons(cancel)) :
            /\ pc = "idle"
            /\ pc' = "returned"
            /\ op' = "show_question"
            /\ args' = [cancel |-> cancel, gesture |-> gesture]
            /\ ret' = show_question(cancel, gesture)
            /\ UNCHANGED <<procs, raised>>

ShowIntInput ==
    \E value \in IntValues, min_value \in OptIntArgs, max_value \in OptIntArgs, ok \in BOOLEAN :
        \E typed \in Typeable(IntInputDialog(value, min_value, max_value)) :
            /\ pc = "idle"
            /\ pc' = "returned"
            /\ op' = "show_int_input"
            /\ args' = [value |-> value, min_value |-> min_value, max_value |-> max_value,
                        ok |-> ok, typed |-> typed]
            /\ ret' = show_int_input(value, min_value, max_value, ok, typed)
            /\ UNCHANGED <<procs, raised>>

OpenFileChooser ==
    \E single_selection \in BOOLEAN, mode \in {FILTER_IMAGES, FILTER_DB} :
        \E selection \in IF single_selection THEN Paths ELSE Selections :
            /\ pc = "idle"
            /\ pc' = "returned"
            /\ op' = "open_file_chooser"
            /\ args' = [single_selection |-> single_selection, mode |-> mode,
                        selection |-> selection]
            /\ ret' = open_file_chooser(single_selection, mode, selection)
            /\ UNCHANGED <<procs, raised>>

OpenPlaylistSaver ==
    \E file \in Paths :
        /\ pc = "idle"
        /\ pc' = "returned"
        /\ op' = "open_playlist_saver"
        /\ args' = [file |-> file]
        /\ ret' = open_playlist_saver(file)
        /\ UNCHANGED <<procs, raised>>

OpenDirectoryChooser ==
    \E directory \in Directories, entries \in Listings :
        /\ pc = "idle"
        /\ pc' = "returned"
        /\ op' = "open_directory_chooser"
        /\ args' = [directory |-> directory, entries |-> entries]
        /\ ret' = open_directory_chooser(directory, entries)
        /\ UNCHANGED <<procs, raised>>

ShowFile ==
    \E file_path \in ShownPaths, loops \in BOOLEAN, system \in Systems :
        LET done == show_file(IF loops THEN None ELSE Some(Absolute(file_path)), system)
        IN  /\ pc = "idle"
            /\ pc' = "returned"
            /\ op' = "show_file"
            /\ args' = [file_path |-> file_path, loops |-> loops, system |-> system]
            /\ ret' = None
            /\ procs' = done.launched
            /\ raised' = done.raised

Negate ==
    \E r \in Reds, g \in Greens, b \in Blues, a \in Alphas :
        /\ pc = "idle"
        /\ pc' = "returned"
        /\ op' = "negate"
        /\ args' = [color |-> QColorA(r, g, b, a)]
        /\ ret' = negate(QColorA(r, g, b, a))
        /\ UNCHANGED <<procs, raised>>

\* The caller negates the colour negate has just returned.
NegateAgain ==
    /\ pc = "returned"
    /\ op = "negate"
    /\ op' = "negate_negate"
    /\ ret' = negate(ret)
    /\ UNCHANGED <<pc, args, procs, raised>>

FontColor ==
    \E r \in Reds, g \in Greens, b \in Blues :
        /\ pc = "idle"
        /\ pc' = "returned"
        /\ op' = "font_color"
        /\ args' = [bg_color |-> QColor(r, g, b)]
        /\ ret' = font_color(QColor(r, g, b))
        /\ UNCHANGED <<procs, raised>>

\* Back to the caller.
Return ==
    /\ pc = "returned"
    /\ pc' = "idle"
    /\ op' = "none"
    /\ args' = <<>>
    /\ ret' = None
    /\ procs' = <<>>
    /\ raised' = FALSE

Next ==
    \/ ShowQuestion
    \/ ShowIntInput
    \/ OpenFileChooser
    \/ OpenPlaylistSaver
    \/ OpenDirectoryChooser
    \/ ShowFile
    \/ Negate
    \/ NegateAgain
    \/ FontColor
    \/ Return

Spec == Init /\ [][Next]_vars

(***************************************************************************)
(* The properties.                                                         *)
(***************************************************************************)
Range(q) == {q[k] : k \in 1..Len(q)}

\* The whitelist of a filter mode.
Whitelist(mode) ==
    IF mode = FILTER_IMAGES THEN IMAGE_FILE_EXTENSIONS
    ELSE {<<"s", "q", "l", "i", "t", "e", "3">>}

\* The paths an open_file_chooser result holds.
ChooserPaths ==
    IF ret = None THEN {}
    ELSE IF args.single_selection THEN {ret[1]}
    ELSE Range(ret[1])

\* C1: open_file_chooser returns no path whose lower-cased extension is
\* outside the whitelist of the mode; a multiple selection keeps the paths
\* that are in the whitelist, one result for each, and only those; a single
\* selection outside the whitelist gives None.
C1_ChooserKeepsWhitelist ==
    op = "open_file_chooser" =>
        /\ \A q \in ChooserPaths : ExtOf(q) \in Whitelist(args.mode)
        /\ (~args.single_selection /\ ret # None) =>
              /\ Len(ret[1]) = Cardinality({k \in 1..Len(args.selection) :
                                   ExtOf(args.selection[k]) \in Whitelist(args.mode)})
              /\ \A k \in 1..Len(args.selection) :
                    ExtOf(args.selection[k]) \in Whitelist(args.mode)
                        <=> Absolute(args.selection[k]) \in Range(ret[1])
        /\ (args.single_selection /\ args.selection # <<>>
                /\ ExtOf(args.selection) \notin Whitelist(args.mode)) => ret = None

\* A multiple selection of two paths of which the dialog's filter admits
\* one: that one is returned.
C1_Witness ==
    /\ op = "open_file_chooser"
    /\ ~args.single_selection
    /\ Len(args.selection) = 2
    /\ ret # None
    /\ Len(ret[1]) = 1

RECURSIVE TrailingExts(_)
\* How many times s ends in ".play".
TrailingExts(s) ==
    IF EndsWith(s, PlaylistExt)
    THEN 1 + TrailingExts(SubSeq(s, 1, Len(s) - Len(PlaylistExt)))
    ELSE 0

\* C2: for a non-empty file name, open_playlist_saver returns a path that
\* ends in ".play": the name made absolute, with ".play" added once when the
\* name does not end in it and with nothing added when it does.
C2_SaverEndsInPlay ==
    (op = "open_playlist_saver" /\ args.file # <<>>) =>
        /\ ret # None
        /\ EndsWith(ret[1], PlaylistExt)
        /\ IF EndsWith(args.file, PlaylistExt)
           THEN /\ ret[1] = Absolute(args.file)
                /\ TrailingExts(ret[1]) = TrailingExts(args.file)
           ELSE /\ ret[1] = Absolute(args.file \o PlaylistExt)
                /\ TrailingExts(ret[1]) = 1

\* A name without the extension comes back with it.
C2_Witness ==
    /\ op = "open_playlist_saver"
    /\ args.file # <<>>
    /\ ~EndsWith(args.file, PlaylistExt)
    /\ ret # None
    /\ EndsWith(ret[1], PlaylistExt)

\* C3: without cancel, show_question returns True or False, however the
\* user ends the box.
C3_NoCancelNeverAbsent ==
    (op = "show_question" /\ ~args.cancel) => ret \in {Some(TRUE), Some(FALSE)}

\* The box without a Cancel button is dismissed, and the answer is False.
C3_Witness ==
    /\ op = "show_question"
    /\ ~args.cancel
    /\ args.gesture = "Dismiss"
    /\ ret = Some(FALSE)

\* C4: with cancel, show_question returns True for Yes, False for No and
\* None, which is neither answer, for Cancel or a dismissal.
C4_CancelTriState ==
    (op = "show_question" /\ args.cancel) =>
        /\ args.gesture = "Yes" => ret = Some(TRUE)
        /\ args.gesture = "No" => ret = Some(FALSE)
        /\ args.gesture \in {"Cancel", "Dismiss"} => ret = None

\* The box with a Cancel button is dismissed, and the result is None.
C4_Witness ==
    /\ op = "show_question"
    /\ args.cancel
    /\ args.gesture = "Dismiss"
    /\ ret = None

\* The other two outcomes of the box with a Cancel button.
C4_ReachesTrue == op = "show_question" /\ args.cancel /\ ret = Some(TRUE)

C4_ReachesFalse == op = "show_question" /\ args.cancel /\ ret = Some(FALSE)

\* Ten million times the luminance of a colour, times ChannelMax: exact.
ScaledLuminance(c) == 2126 * c.red + 7152 * c.green + 722 * c.blue

\* 0.179 on the scale of ScaledLuminance.
ScaledThreshold == 179 * 10 * ChannelMax

\* C5: font_color returns black when the luminance of the background,
\* 0.2126 R/255 + 0.7152 G/255 + 0.0722 B/255, is above 0.179, and white
\* otherwise, at exactly 0.179 too.
C5_FontColorByLuminance ==
    op = "font_color" =>
        ret = IF ScaledLuminance(args.bg_color) > ScaledThreshold THEN BLACK ELSE WHITE

\* font_color is as C5 says for every colour whose luminance is not 0.179.
C5_AwayFromThreshold ==
    (op = "font_color" /\ ScaledLuminance(args.bg_color) # ScaledThreshold) =>
        ret = IF ScaledLuminance(args.bg_color) > ScaledThreshold THEN BLACK ELSE WHITE

\* The program each host's file manager is asked through.
Reveal(system) ==
    CASE system = <<"W", "i", "n", "d", "o", "w", "s">> -> <<"explorer", "/select">>
      [] system = <<"L", "i", "n", "u", "x">> -> <<"dbus-send", "ShowItems">>
      [] system = <<"D", "a", "r", "w", "i", "n">> -> <<"open", "">>
      [] OTHER -> <<>>

\* C6: show_file launches one process on Windows, Linux and macOS (explorer
\* /select, dbus-send ShowItems, open), on the absolute path, and none on
\* another host or when making the path absolute fails on a loop; it raises
\* nothing.
C6_ShowFileOneProcess ==
    op = "show_file" =>
        /\ ~raised
        /\ IF ~args.loops /\ Reveal(args.system) # <<>>
           THEN /\ Len(procs) = 1
                /\ <<procs[1].program, procs[1].verb>> = Reveal(args.system)
                /\ procs[1].path = Absolute(args.file_path)
           ELSE procs = <<>>

\* On Windows the explorer is launched.
C6_Witness ==
    /\ op = "show_file"
    /\ args.system = <<"W", "i", "n", "d", "o", "w", "s">>
    /\ Len(procs) = 1
    /\ procs[1].program = "explorer"

\* Whether v is within the bounds show_int_input was called with.
WithinArgs(v) ==
    /\ args.min_value # None => v >= args.min_value[1]
    /\ args.max_value # None => v <= args.max_value[1]

\* C7, as claimed: show_int_input returns None or an integer that is not
\* below min_value and not above max_value, whatever the bounds and the
\* default value.
C7_IntInputWithinBounds ==
    op = "show_int_input" =>
        IF args.ok THEN ret # None /\ WithinArgs(ret[1]) ELSE ret = None

\* C7, amended: the same, for calls whose min_value is not above their
\* max_value when both are given.
C7_IntInputWithinOrderedBounds ==
    (/\ op = "show_int_input"
     /\ ~(args.min_value # None /\ args.max_value # None
            /\ args.min_value[1] > args.max_value[1])) =>
        IF args.ok THEN ret # None /\ WithinArgs(ret[1]) ELSE ret = None

\* A default value above the maximum, left as it is: the maximum comes back.
C7_Witness ==
    /\ op = "show_int_input"
    /\ args.ok
    /\ args.typed = None
    /\ args.min_value # None
    /\ args.max_value # None
    /\ args.min_value[1] < args.max_value[1]
    /\ args.value > args.max_value[1]
    /\ ret = Some(args.max_value[1])

C9_DirectoryListsImageFiles ==
    op = "open_directory_chooser" =>
        IF args.directory = <<>> THEN ret = None
        ELSE /\ ret # None
             /\ Range(ret[1]) =
                  {AbsolutePath(PathChild(Path(args.directory), f.name)) :
                      f \in {e \in Range(args.entries) :
                               ~e.is_dir /\ ExtOf(e.name) \in IMAGE_FILE_EXTENSIONS}}

\* C10: for a multiple selection open_file_chooser returns None exactly when
\* the dialog returned nothing; a selection none of whose paths passes gives
\* the empty list, and a single selection that does not pass gives None.
C10_AbsentIffCancelled ==
    op = "open_file_chooser" =>
        /\ ~args.single_selection => (ret = None <=> args.selection = <<>>)
        /\ (/\ ~args.single_selection
            /\ args.selection # <<>>
            /\ \A k \in 1..Len(args.selection) :
                    ExtOf(args.selection[k]) \notin Whitelist(args.mode))
              => ret = Some(<<>>)
        /\ (args.single_selection /\ args.selection # <<>>
                /\ ExtOf(args.selection) \notin Whitelist(args.mode)) => ret = None

\* A multiple selection none of whose paths passes: the empty list.
C10_Witness ==
    /\ op = "open_file_chooser"
    /\ ~args.single_selection
    /\ args.selection # <<>>
    /\ ret = Some(<<>>)

=============================================================================
